---- MODULE Spec2Model ----
(***************************************************************************)
(* Decision and bias-mitigation layer of the pest detection service        *)
(* (backend/app/services/pest_detection_service.py) and the endpoints of   *)
(* the router that serve it (backend/app/routers/pest_detection.py).       *)
(*                                                                         *)
(* Confidences are exact decimals: an entry of the probability vector is   *)
(* a whole number of hundredths (0..100), a confidence written into a      *)
(* result is a whole number of ten-thousandths, which is what              *)
(* round(x, 4) leaves.  Where the rounding itself matters the vector has   *)
(* entries in hundred-thousandths (the definitions named ..._precise).     *)
(* Strings are TLA+ strings handled character by character with Len,       *)
(* SubSeq and \o.  Python dicts are records whose DOMAIN is the set of     *)
(* keys present.                                                           *)
(***************************************************************************)
EXTENDS Integers, Sequences, FiniteSets, TLC

(***************************************************************************)
(* Bounds of the model.                                                    *)
(***************************************************************************)
\* number of classes of a probability vector that may be non-zero
MaxActive == 3

\* class ids that may carry a non-zero probability, in order of preference
ActiveOrder == <<5, 9, 4, 18, 0>>

ActiveIds == {ActiveOrder[i] : i \in 1..MaxActive}

\* confidence values (hundredths) an active class may take: both sides of
\* every threshold of the policy
Levels == {0, 20, 25, 40, 59, 60, 70, 75, 80, 85, 90, 95, 96}

(***************************************************************************)
(* Python str operations used by the service.                              *)
(***************************************************************************)
Char(s, i) == SubSeq(s, i, i)

StartsWithAt(s, i, p) ==
    /\ i + Len(p) - 1 <= Len(s)
    /\ SubSeq(s, i, i + Len(p) - 1) = p

\* p in s
str_contains(s, p) == \E i \in 1..(Len(s) - Len(p) + 1) : StartsWithAt(s, i, p)

RECURSIVE ReplaceFrom(_, _, _, _)
ReplaceFrom(s, old, new, i) ==
    IF i > Len(s) THEN ""
    ELSE IF StartsWithAt(s, i, old)
         THEN new \o ReplaceFrom(s, old, new, i + Len(old))
         ELSE Char(s, i) \o ReplaceFrom(s, old, new, i + 1)

\* s.replace(old, new): leftmost non-overlapping occurrences
str_replace(s, old, new) == ReplaceFrom(s, old, new, 1)

UpperLetters == "ABCDEFGHIJKLMNOPQRSTUVWXYZ"
LowerLetters == "abcdefghijklmnopqrstuvwxyz"

LetterIndex(letters, c) ==
    IF \E i \in 1..26 : Char(letters, i) = c
    THEN CHOOSE i \in 1..26 : Char(letters, i) = c
    ELSE 0

char_lower(c) ==
    LET i == LetterIndex(UpperLetters, c)
    IN  IF i = 0 THEN c ELSE Char(LowerLetters, i)

char_upper(c) ==
    LET i == LetterIndex(LowerLetters, c)
    IN  IF i = 0 THEN c ELSE Char(UpperLetters, i)

RECURSIVE LowerFrom(_, _)
LowerFrom(s, i) ==
    IF i > Len(s) THEN "" ELSE char_lower(Char(s, i)) \o LowerFrom(s, i + 1)

\* s.lower()
str_lower(s) == LowerFrom(s, 1)

\* s.capitalize(): first character upper-cased, the rest lower-cased
str_capitalize(s) ==
    IF Len(s) = 0 THEN "" ELSE char_upper(Char(s, 1)) \o LowerFrom(s, 2)

RECURSIVE SplitFrom(_, _, _)
SplitFrom(s, i, cur) ==
    IF i > Len(s)
    THEN (IF cur = "" THEN <<>> ELSE <<cur>>)
    ELSE IF Char(s, i) = " "
         THEN (IF cur = "" THEN <<>> ELSE <<cur>>) \o SplitFrom(s, i + 1, "")
         ELSE SplitFrom(s, i + 1, cur \o Char(s, i))

\* s.split(): the words between runs of whitespace
str_split(s) == SplitFrom(s, 1, "")

RECURSIVE JoinFrom(_, _)
JoinFrom(words, i) ==
    IF i > Len(words) THEN ""
    ELSE IF i = Len(words) THEN words[i]
    ELSE words[i] \o " " \o JoinFrom(words, i + 1)

\* " ".join(words)
str_join(words) == JoinFrom(words, 1)

RECURSIVE StripLeft(_)
StripLeft(s) ==
    IF Len(s) > 0 /\ Char(s, 1) = " " THEN StripLeft(SubSeq(s, 2, Len(s))) ELSE s

RECURSIVE StripRight(_)
StripRight(s) ==
    IF Len(s) > 0 /\ Char(s, Len(s)) = " "
    THEN StripRight(SubSeq(s, 1, Len(s) - 1))
    ELSE s

\* s.strip()
str_strip(s) == StripRight(StripLeft(s))

LowercaseWords == {"and", "or", "the", "of", "in", "on", "at", "to", "for"}

format_word(word) ==
    IF str_lower(word) \in LowercaseWords THEN str_lower(word)
    ELSE IF str_contains(word, "(") \/ str_contains(word, ")") THEN word
    ELSE str_capitalize(word)

clean_disease_name(raw_name) ==
    LET c1 == str_replace(str_replace(raw_name, "___", " - "), "_", " ")
        c2 == str_replace(c1, "(including sour)", "")
        c3 == str_replace(c2, "Two-spotted spider mite", "Two-spotted Spider Mite")
        words == str_split(c3)
        formatted_words == [i \in 1..Len(words) |-> format_word(words[i])]
    IN  str_strip(str_join(formatted_words))

(***************************************************************************)
(* Configuration of the service.                                           *)
(***************************************************************************)
\* self.disease_mapping as the constructor sets it (22 classes)
shipped_disease_mapping ==
    LET names == <<"Healthy_Leaf", "Apple_Scab", "Apple_Black_Rot",
                   "Apple_Cedar_Rust", "Cherry_Powdery_Mildew",
                   "Corn_Gray_Leaf_Spot", "Corn_Common_Rust",
                   "Corn_Northern_Blight", "Grape_Black_Rot", "Grape_Esca",
                   "Grape_Leaf_Blight", "Peach_Bacterial_Spot",
                   "Pepper_Bacterial_Spot", "Potato_Early_Blight",
                   "Potato_Late_Blight", "Strawberry_Leaf_Scorch",
                   "Tomato_Bacterial_Spot", "Tomato_Early_Blight",
                   "Tomato_Late_Blight", "Tomato_Leaf_Mold",
                   "Tomato_Septoria_Leaf_Spot", "Tomato_Spider_Mites">>
    IN  [id \in 0..(Len(names) - 1) |-> names[id + 1]]

\* the 42-class mapping of the previous model, the one the registry of
\* problematic predictions was written for
legacy_disease_mapping ==
    LET names == <<"Apple___Apple_scab", "Apple___Black_rot",
                   "Apple___Cedar_apple_rust", "Apple___healthy",
                   "Blueberry___healthy",
                   "Cherry_(including_sour)___Powdery_mildew",
                   "Cherry_(including_sour)___healthy",
                   "Corn_(maize)___Cercospora_leaf_spot Gray_leaf_spot",
                   "Corn_(maize)___Common_rust_",
                   "Corn_(maize)___Northern_Leaf_Blight",
                   "Corn_(maize)___healthy", "Grape___Black_rot",
                   "Grape___Esca_(Black_Measles)",
                   "Grape___Leaf_blight_(Isariopsis_Leaf_Spot)",
                   "Grape___healthy",
                   "Orange___Haunglongbing_(Citrus_greening)",
                   "Peach___Bacterial_spot", "Peach___healthy",
                   "Pepper,_bell___Bacterial_spot", "Pepper,_bell___healthy",
                   "Potato___Early_blight", "Potato___Late_blight",
                   "Potato___healthy", "Raspberry___healthy",
                   "Soybean___healthy", "Squash___Powdery_mildew",
                   "Strawberry___Leaf_scorch", "Strawberry___healthy",
                   "Tomato___Bacterial_spot", "Tomato___Early_blight",
                   "Tomato___Late_blight", "Tomato___Leaf_Mold",
                   "Tomato___Septoria_leaf_spot",
                   "Tomato___Spider_mites Two-spotted_spider_mite",
                   "Tomato___Target_Spot",
                   "Tomato___Tomato_Yellow_Leaf_Curl_Virus",
                   "Tomato___Tomato_mosaic_virus", "Tomato___healthy",
                   "Background_without_leaves", "Invalid", "Diseased",
                   "Healthy">>
    IN  [id \in 0..(Len(names) - 1) |-> names[id + 1]]

\* self.disease_mapping.get(class_id, f"Unknown Disease {class_id}")
mapping_get(mapping, class_id) ==
    IF class_id \in DOMAIN mapping
    THEN mapping[class_id]
    ELSE "Unknown Disease " \o ToString(class_id)

\* the registry rewritten in the spelling of the cleaned shipped labels
problematic_predictions_respelled ==
    <<"Cherry Powdery Mildew", "Potato Healthy", "Corn Northern Blight">>

problematic_predictions ==
    <<"Cherry - Powdery Mildew", "Potato - Healthy",
      "Corn (maize) - Northern Leaf Blight">>

\* self._clean_disease_name on the names of the two mappings, computed once
cleaned_names ==
    [raw \in {shipped_disease_mapping[id] : id \in DOMAIN shipped_disease_mapping}
          \cup {legacy_disease_mapping[id] : id \in DOMAIN legacy_disease_mapping}
        |-> clean_disease_name(raw)]

\* self._clean_disease_name(raw_name)
cleaned(raw_name) ==
    IF raw_name \in DOMAIN cleaned_names
    THEN cleaned_names[raw_name]
    ELSE clean_disease_name(raw_name)

\* thresholds of the policy, in hundredths; each is preceded by the value a
\* slip of the pen would give it
LowConfidenceThresholdSlip == 60 - 10
LowConfidenceThreshold == 60

BiasTriggerThresholdSlip == 70 + 20
BiasTriggerThreshold == 70

SevereBiasThresholdSlip == 90 + 5
SevereBiasThresholdLow == 90 - 10
SevereBiasThreshold == 90

DominanceConfidenceThreshold == 80

DominanceGapThresholdSlip == 60 + 10
DominanceGapThreshold == 60

VeryHighConfidenceThresholdSlip == 95 - 5
VeryHighConfidenceThreshold == 95

\* len of the slice [-5:] of the ranking kept by _apply_bias_mitigation
TopCount == 5

\* upper end of range(1, min(4, len(top_indices)))
AlternativesCountSlip == 4 - 1
AlternativesCountWide == 4 + 1
AlternativesCount == 4

(***************************************************************************)
(* Numbers.                                                                *)
(***************************************************************************)
Max(S) == CHOOSE m \in S : \A y \in S : y <= m

Min2(a, b) == IF a <= b THEN a ELSE b

\* the quotient rounded up instead of to the nearest
round4_ceiling(num, den) ==
    LET n == num * 100
        q == n \div den
        r == n % den
    IN  IF r = 0 THEN q ELSE q + 1

\* round(num / den, 4) for num / den in hundredths, as ten-thousandths;
\* a tie goes to the even neighbour
round4(num, den) ==
    LET n == num * 100
        q == n \div den
        r == n % den
    IN  IF 2 * r < den THEN q
        ELSE IF 2 * r > den THEN q + 1
        ELSE IF q % 2 = 0 THEN q ELSE q + 1

(***************************************************************************)
(* Ranking.  np.argsort uses the default kind, which is not a stable sort: *)
(* the order of equal entries depends on the build.  stable = TRUE is the  *)
(* order an insertion sort leaves (equal entries by ascending index),      *)
(* stable = FALSE the opposite one.                                        *)
(***************************************************************************)
\* index i comes before index j in np.argsort(predictions)
ArgsortBefore(p, stable, i, j) ==
    \/ p[i] < p[j]
    \/ p[i] = p[j] /\ (IF stable THEN i < j ELSE i > j)

RECURSIVE ArgsortLast(_, _, _, _)
ArgsortLast(p, stable, k, taken) ==
    IF k = 0 \/ taken = DOMAIN p THEN <<>>
    ELSE LET rest == (DOMAIN p) \ taken
             last == CHOOSE i \in rest :
                        \A j \in rest : j = i \/ ArgsortBefore(p, stable, j, i)
         IN  <<last>> \o ArgsortLast(p, stable, k - 1, taken \cup {last})

\* np.argsort(predictions)[-k:][::-1]: the last k indices of the ascending
\* ranking, last one first (Python position n is position n + 1 here)
argsort_desc(p, stable, k) == ArgsortLast(p, stable, k, {})

\* np.partition(predictions, -2)[-2]: the second largest entry
second_largest(p) ==
    LET top == CHOOSE i \in DOMAIN p : \A j \in DOMAIN p : p[j] <= p[i]
    IN  Max({p[j] : j \in (DOMAIN p) \ {top}})

(***************************************************************************)
(* The decision layer.                                                     *)
(***************************************************************************)
\* the loop started at 0: the top prediction is listed among its alternatives
get_alternative_predictions_from_top(mapping, top_indices, top_confidences) ==
    [i \in 1..(Min2(AlternativesCount, Len(top_indices)) - 1) |->
        [prediction |-> cleaned(mapping_get(mapping, top_indices[i])),
         confidence |-> round4(top_confidences[i], 1)]]

get_alternative_predictions(mapping, top_indices, top_confidences) ==
    [i \in 1..(Min2(AlternativesCount, Len(top_indices)) - 1) |->
        [prediction |-> cleaned(mapping_get(mapping, top_indices[i + 1])),
         confidence |-> round4(top_confidences[i + 1], 1)]]

\* the dominance blend left as the sum of the two confidences
detect_bias_patterns_undivided(mapping, stable, predictions, disease_name, confidence) ==
    LET sorted_indices == argsort_desc(predictions, stable, 3)
        second_best_id == sorted_indices[2]
        third_best_id == sorted_indices[3]
        second_confidence == predictions[second_best_id]
        third_confidence == predictions[third_best_id]
        second_disease == cleaned(mapping_get(mapping, second_best_id))
        third_disease == cleaned(mapping_get(mapping, third_best_id))
        max_confidence == Max({predictions[i] : i \in DOMAIN predictions})
        second_max == second_largest(predictions)
    IN  IF /\ \E k \in 1..Len(problematic_predictions) :
                 str_contains(disease_name, problematic_predictions[k])
           /\ confidence > BiasTriggerThreshold
        THEN IF confidence > SevereBiasThreshold
             THEN [is_biased |-> TRUE,
                   adjusted_prediction |->
                       "Uncertain Detection - Possibly " \o second_disease
                           \o " or " \o third_disease,
                   adjusted_confidence |->
                       <<Max({second_confidence, third_confidence}), 1>>,
                   reason |-> "Model shows strong bias towards " \o disease_name
                       \o ". Suggesting alternatives based on secondary predictions."]
             ELSE [is_biased |-> TRUE,
                   adjusted_prediction |->
                       "Multiple Possibilities: " \o disease_name \o ", "
                           \o second_disease \o ", or " \o third_disease,
                   adjusted_confidence |->
                       <<confidence + second_confidence + third_confidence, 3>>,
                   reason |-> "Detected potential bias pattern. Providing multiple possibilities."]
        ELSE IF /\ max_confidence > DominanceConfidenceThreshold
                /\ max_confidence - second_max > DominanceGapThreshold
        THEN [is_biased |-> TRUE,
              adjusted_prediction |->
                  "High Confidence with Uncertainty: Likely " \o disease_name
                      \o " but consider " \o second_disease,
              adjusted_confidence |-> <<max_confidence + second_max, 1>>,
              reason |-> "Detected unusually high confidence gap - adding uncertainty to prevent overconfidence."]
        ELSE [is_biased |-> FALSE]

\* adjusted_confidence is the exact fraction <<numerator, denominator>>
detect_bias_patterns(mapping, stable, predictions, disease_name, confidence) ==
    LET sorted_indices == argsort_desc(predictions, stable, 3)
        second_best_id == sorted_indices[2]
        third_best_id == sorted_indices[3]
        second_confidence == predictions[second_best_id]
        third_confidence == predictions[third_best_id]
        second_disease == cleaned(mapping_get(mapping, second_best_id))
        third_disease == cleaned(mapping_get(mapping, third_best_id))
        max_confidence == Max({predictions[i] : i \in DOMAIN predictions})
        second_max == second_largest(predictions)
    IN  IF /\ \E k \in 1..Len(problematic_predictions) :
                 str_contains(disease_name, problematic_predictions[k])
           /\ confidence > BiasTriggerThreshold
        THEN IF confidence > SevereBiasThreshold
             THEN [is_biased |-> TRUE,
                   adjusted_prediction |->
                       "Uncertain Detection - Possibly " \o second_disease
                           \o " or " \o third_disease,
                   adjusted_confidence |->
                       <<Max({second_confidence, third_confidence}), 1>>,
                   reason |-> "Model shows strong bias towards " \o disease_name
                       \o ". Suggesting alternatives based on secondary predictions."]
             ELSE [is_biased |-> TRUE,
                   adjusted_prediction |->
                       "Multiple Possibilities: " \o disease_name \o ", "
                           \o second_disease \o ", or " \o third_disease,
                   adjusted_confidence |->
                       <<confidence + second_confidence + third_confidence, 3>>,
                   reason |-> "Detected potential bias pattern. Providing multiple possibilities."]
        ELSE IF /\ max_confidence > DominanceConfidenceThreshold
                /\ max_confidence - second_max > DominanceGapThreshold
        THEN [is_biased |-> TRUE,
              adjusted_prediction |->
                  "High Confidence with Uncertainty: Likely " \o disease_name
                      \o " but consider " \o second_disease,
              adjusted_confidence |-> <<max_confidence + second_max, 2>>,
              reason |-> "Detected unusually high confidence gap - adding uncertainty to prevent overconfidence."]
        ELSE [is_biased |-> FALSE]

\* the diversity check placed before the bias check
apply_bias_mitigation_diversity_first(mapping, stable, predictions) ==
    LET top_indices == argsort_desc(predictions, stable, TopCount)
        top_confidences == [i \in 1..Len(top_indices) |-> predictions[top_indices[i]]]
        predicted_class_id == top_indices[1]
        confidence == top_confidences[1]
        raw_disease_name == mapping_get(mapping, predicted_class_id)
        disease_name == cleaned(raw_disease_name)
        bias_check == detect_bias_patterns(mapping, stable, predictions,
                                           disease_name, confidence)
    IN  IF confidence < LowConfidenceThreshold
        THEN [prediction |-> "Uncertain - Low Confidence Detection",
              confidence |-> round4(confidence, 1),
              status |-> "low_confidence",
              alternative_predictions |->
                  get_alternative_predictions(mapping, top_indices, top_confidences)]
        ELSE IF confidence > VeryHighConfidenceThreshold
        THEN [prediction |-> disease_name,
              confidence |-> round4(confidence, 1),
              status |-> "high_confidence_with_alternatives",
              alternative_predictions |->
                  get_alternative_predictions(mapping, top_indices, top_confidences),
              note |-> "Very high confidence - consider alternative possibilities"]
        ELSE IF bias_check.is_biased
        THEN [prediction |-> bias_check.adjusted_prediction,
              confidence |-> round4(bias_check.adjusted_confidence[1],
                                    bias_check.adjusted_confidence[2]),
              status |-> "bias_adjusted",
              original_prediction |-> disease_name,
              note |-> bias_check.reason]
        ELSE [prediction |-> disease_name,
              confidence |-> round4(confidence, 1),
              status |-> "normal"]

\* the over-confident record carries original_prediction as well
apply_bias_mitigation_original_kept(mapping, stable, predictions) ==
    LET top_indices == argsort_desc(predictions, stable, TopCount)
        top_confidences == [i \in 1..Len(top_indices) |-> predictions[top_indices[i]]]
        predicted_class_id == top_indices[1]
        confidence == top_confidences[1]
        raw_disease_name == mapping_get(mapping, predicted_class_id)
        disease_name == cleaned(raw_disease_name)
        bias_check == detect_bias_patterns(mapping, stable, predictions,
                                           disease_name, confidence)
    IN  IF confidence < LowConfidenceThreshold
        THEN [prediction |-> "Uncertain - Low Confidence Detection",
              confidence |-> round4(confidence, 1),
              status |-> "low_confidence",
              alternative_predictions |->
                  get_alternative_predictions(mapping, top_indices, top_confidences)]
        ELSE IF bias_check.is_biased
        THEN [prediction |-> bias_check.adjusted_prediction,
              confidence |-> round4(bias_check.adjusted_confidence[1],
                                    bias_check.adjusted_confidence[2]),
              status |-> "bias_adjusted",
              original_prediction |-> disease_name,
              note |-> bias_check.reason]
        ELSE IF confidence > VeryHighConfidenceThreshold
        THEN [prediction |-> disease_name,
              confidence |-> round4(confidence, 1),
              status |-> "high_confidence_with_alternatives",
              original_prediction |-> disease_name,
              alternative_predictions |->
                  get_alternative_predictions(mapping, top_indices, top_confidences),
              note |-> "Very high confidence - consider alternative possibilities"]
        ELSE [prediction |-> disease_name,
              confidence |-> round4(confidence, 1),
              status |-> "normal"]

apply_bias_mitigation(mapping, stable, predictions) ==
    LET top_indices == argsort_desc(predictions, stable, TopCount)
        top_confidences == [i \in 1..Len(top_indices) |-> predictions[top_indices[i]]]
        predicted_class_id == top_indices[1]
        confidence == top_confidences[1]
        raw_disease_name == mapping_get(mapping, predicted_class_id)
        disease_name == cleaned(raw_disease_name)
        bias_check == detect_bias_patterns(mapping, stable, predictions,
                                           disease_name, confidence)
    IN  IF confidence < LowConfidenceThreshold
        THEN [prediction |-> "Uncertain - Low Confidence Detection",
              confidence |-> round4(confidence, 1),
              status |-> "low_confidence",
              alternative_predictions |->
                  get_alternative_predictions(mapping, top_indices, top_confidences)]
        ELSE IF bias_check.is_biased
        THEN [prediction |-> bias_check.adjusted_prediction,
              confidence |-> round4(bias_check.adjusted_confidence[1],
                                    bias_check.adjusted_confidence[2]),
              status |-> "bias_adjusted",
              original_prediction |-> disease_name,
              note |-> bias_check.reason]
        ELSE IF confidence > VeryHighConfidenceThreshold
        THEN [prediction |-> disease_name,
              confidence |-> round4(confidence, 1),
              status |-> "high_confidence_with_alternatives",
              alternative_predictions |->
                  get_alternative_predictions(mapping, top_indices, top_confidences),
              note |-> "Very high confidence - consider alternative possibilities"]
        ELSE [prediction |-> disease_name,
              confidence |-> round4(confidence, 1),
              status |-> "normal"]

(***************************************************************************)
(* The decision layer on vectors with more than four decimal places, where *)
(* round(x, 4) changes the value: entries in hundred-thousandths, Precise  *)
(* of them to a hundredth; results stay in ten-thousandths.                *)
(***************************************************************************)
Precise == 10 * 10 * 10

get_alternative_predictions_precise(mapping, top_indices, top_confidences) ==
    [i \in 1..(Min2(AlternativesCount, Len(top_indices)) - 1) |->
        [prediction |-> cleaned(mapping_get(mapping, top_indices[i + 1])),
         confidence |-> round4(top_confidences[i + 1], Precise)]]

detect_bias_patterns_precise(mapping, stable, predictions, disease_name, confidence) ==
    LET sorted_indices == argsort_desc(predictions, stable, 3)
        second_best_id == sorted_indices[2]
        third_best_id == sorted_indices[3]
        second_confidence == predictions[second_best_id]
        third_confidence == predictions[third_best_id]
        second_disease == cleaned(mapping_get(mapping, second_best_id))
        third_disease == cleaned(mapping_get(mapping, third_best_id))
        max_confidence == Max({predictions[i] : i \in DOMAIN predictions})
        second_max == second_largest(predictions)
    IN  IF /\ \E k \in 1..Len(problematic_predictions) :
                 str_contains(disease_name, problematic_predictions[k])
           /\ confidence > BiasTriggerThreshold * Precise
        THEN IF confidence > SevereBiasThreshold * Precise
             THEN [is_biased |-> TRUE,
                   adjusted_prediction |->
                       "Uncertain Detection - Possibly " \o second_disease
                           \o " or " \o third_disease,
                   adjusted_confidence |->
                       <<Max({second_confidence, third_confidence}), 1>>,
                   reason |-> "Model shows strong bias towards " \o disease_name
                       \o ". Suggesting alternatives based on secondary predictions."]
             ELSE [is_biased |-> TRUE,
                   adjusted_prediction |->
                       "Multiple Possibilities: " \o disease_name \o ", "
                           \o second_disease \o ", or " \o third_disease,
                   adjusted_confidence |->
                       <<confidence + second_confidence + third_confidence, 3>>,
                   reason |-> "Detected potential bias pattern. Providing multiple possibilities."]
        ELSE IF /\ max_confidence > DominanceConfidenceThreshold * Precise
                /\ max_confidence - second_max > DominanceGapThreshold * Precise
        THEN [is_biased |-> TRUE,
              adjusted_prediction |->
                  "High Confidence with Uncertainty: Likely " \o disease_name
                      \o " but consider " \o second_disease,
              adjusted_confidence |-> <<max_confidence + second_max, 2>>,
              reason |-> "Detected unusually high confidence gap - adding uncertainty to prevent overconfidence."]
        ELSE [is_biased |-> FALSE]

apply_bias_mitigation_precise(mapping, stable, predictions) ==
    LET top_indices == argsort_desc(predictions, stable, TopCount)
        top_confidences == [i \in 1..Len(top_indices) |-> predictions[top_indices[i]]]
        predicted_class_id == top_indices[1]
        confidence == top_confidences[1]
        raw_disease_name == mapping_get(mapping, predicted_class_id)
        disease_name == cleaned(raw_disease_name)
        bias_check == detect_bias_patterns_precise(mapping, stable, predictions,
                                           disease_name, confidence)
    IN  IF confidence < LowConfidenceThreshold * Precise
        THEN [prediction |-> "Uncertain - Low Confidence Detection",
              confidence |-> round4(confidence, Precise),
              status |-> "low_confidence",
              alternative_predictions |->
                  get_alternative_predictions_precise(mapping, top_indices, top_confidences)]
        ELSE IF bias_check.is_biased
        THEN [prediction |-> bias_check.adjusted_prediction,
              confidence |-> round4(bias_check.adjusted_confidence[1],
                                    bias_check.adjusted_confidence[2] * Precise),
              status |-> "bias_adjusted",
              original_prediction |-> disease_name,
              note |-> bias_check.reason]
        ELSE IF confidence > VeryHighConfidenceThreshold * Precise
        THEN [prediction |-> disease_name,
              confidence |-> round4(confidence, Precise),
              status |-> "high_confidence_with_alternatives",
              alternative_predictions |->
                  get_alternative_predictions_precise(mapping, top_indices, top_confidences),
              note |-> "Very high confidence - consider alternative possibilities"]
        ELSE [prediction |-> disease_name,
              confidence |-> round4(confidence, Precise),
              status |-> "normal"]

(***************************************************************************)
(* The pipeline around the decision layer and the router in front of it    *)
(* (backend/app/routers/pest_detection.py).  An upload is the record       *)
(* [is_image, size, decodable]: whether its content type starts with       *)
(* "image/", the number of bytes read, whether PIL can open them.          *)
(***************************************************************************)
\* predict_from_image_bytes: preprocess_image, then predict_disease on the
\* vector model_output that self.model.predict gives; every exception of
\* the two is caught and comes back as a dict with the key "error"
predict_from_image_bytes(mapping, stable, image_data, model_output) ==
    IF ~image_data.decodable
    THEN [error |-> "Failed to preprocess image: cannot identify image file"]
    ELSE apply_bias_mitigation(mapping, stable, model_output)

\* the same pipeline when the model gives a vector in hundred-thousandths
predict_from_image_bytes_precise(mapping, stable, image_data, model_output) ==
    IF ~image_data.decodable
    THEN [error |-> "Failed to preprocess image: cannot identify image file"]
    ELSE apply_bias_mitigation_precise(mapping, stable, model_output)

\* predict_from_base64: preprocess_base64_image (b64decode, then
\* preprocess_image), then predict_disease; every exception comes back as a
\* dict with the key "error"
predict_from_base64(mapping, stable, base64_image, model_output) ==
    IF ~base64_image.decodable
    THEN [error |-> "Failed to preprocess base64 image: Incorrect padding"]
    ELSE apply_bias_mitigation(mapping, stable, model_output)

\* the first substring test that succeeds decides
suggest_basic_treatment(disease_name) ==
    LET name == str_lower(disease_name)
    IN  IF str_contains(name, "late blight")
        THEN "Apply copper-based fungicide; remove infected leaves; improve air circulation."
        ELSE IF str_contains(name, "early blight")
        THEN "Use fungicide (chlorothalonil/mancozeb); remove lower leaves; mulch to reduce soil splash."
        ELSE IF str_contains(name, "bacterial")
        THEN "Remove infected tissue; apply copper sprays; avoid overhead irrigation."
        ELSE IF str_contains(name, "powdery mildew")
        THEN "Use potassium bicarbonate or sulfur sprays; improve ventilation; avoid high humidity."
        ELSE IF str_contains(name, "leaf mold")
        THEN "Increase airflow; reduce humidity; consider chlorothalonil-based treatment."
        ELSE IF str_contains(name, "rust")
        THEN "Apply appropriate fungicide (strobilurin/triazole); remove heavily infected leaves."
        ELSE IF str_contains(name, "mite")
        THEN "Use miticide or insecticidal soap; monitor underside of leaves; improve plant vigor."
        ELSE IF str_contains(name, "spot")
        THEN "Copper-based fungicide; remove infected leaves; avoid wetting foliage."
        ELSE "Use integrated pest management: monitor, remove infected parts, consider organic or copper-based treatments."

\* treatment_map of predict_disease_root, a dict keyed by the whole label
treatment_map ==
    [key \in {"leaf spot", "powdery mildew", "healthy"} |->
        IF key = "leaf spot"
        THEN "Use Copper-based fungicide and ensure proper sunlight"
        ELSE IF key = "powdery mildew"
        THEN "Apply sulfur-based spray and avoid overwatering"
        ELSE "No action needed"]

\* 10 * 1024 * 1024, the largest upload accepted
MaxImageBytes == 10 * 1024 * 1024

\* thresholds of predict_disease_root, in ten-thousandths
RootFallbackThreshold == 4500

SeverityHighThreshold == 7500

SeverityMediumThreshold == 6000

JSONResponse(code, body) == [status_code |-> code, content |-> body]

\* the answer of predict_disease_root once the upload has passed its checks
\* and raw = service.predict_from_image_bytes(content) is there; a
\* confidence of raw is already rounded to four places, round leaves it
root_answer(raw) ==
    IF "error" \in DOMAIN raw
    THEN JSONResponse(500,
             [status |-> "failed",
              message |-> "Model error: " \o raw.error,
              error |-> "inference_error"])
    ELSE LET predicted_label ==
                 str_strip(IF "prediction" \in DOMAIN raw /\ raw.prediction # ""
                           THEN raw.prediction ELSE "Unknown")
             confidence ==
                 IF "confidence" \in DOMAIN raw THEN raw.confidence ELSE 0
             severity ==
                 IF confidence >= SeverityHighThreshold THEN "high"
                 ELSE IF confidence >= SeverityMediumThreshold THEN "medium"
                 ELSE "low"
             key == str_lower(predicted_label)
             treatment ==
                 IF key \in DOMAIN treatment_map THEN treatment_map[key]
                 ELSE suggest_basic_treatment(predicted_label)
         IN  IF confidence < RootFallbackThreshold
             THEN JSONResponse(200,
                      [status |-> "success",
                       disease |-> "Unknown",
                       confidence |-> confidence,
                       severity |-> "low",
                       treatment |-> "Unable to identify. Please upload clearer image.",
                       notes |-> "Upload clearer image if confidence is low."])
             ELSE JSONResponse(200,
                      [status |-> "success",
                       disease |-> predicted_label,
                       confidence |-> confidence,
                       severity |-> severity,
                       treatment |-> treatment,
                       notes |-> "Upload clearer image if confidence is low."])

\* the checks of predict_disease_root on the upload: the answer that turns
\* it away, [accepted |-> TRUE] when it passes
upload_rejection(upload) ==
    IF ~upload.is_image
    THEN JSONResponse(400,
             [status |-> "failed",
              message |-> "Invalid file type or missing image. Upload a JPEG/PNG image.",
              error |-> "image_invalid"])
    ELSE IF upload.size = 0
    THEN JSONResponse(400,
             [status |-> "failed",
              message |-> "Empty file uploaded. Please upload a valid image.",
              error |-> "image_empty"])
    ELSE IF upload.size > MaxImageBytes
    THEN JSONResponse(400,
             [status |-> "failed",
              message |-> "File too large (>10MB). Please upload a smaller image.",
              error |-> "image_too_large"])
    ELSE [accepted |-> TRUE]

(***************************************************************************)
(* The service as a state machine: one call of the decision layer at a     *)
(* time on a probability vector the classifier supplies.                   *)
(***************************************************************************)
VARIABLES
    disease_mapping,    \* self.disease_mapping
    argsort_stable,     \* tie order of np.argsort in this build
    pc,                 \* position of the call or request in flight
    predictions,        \* the vector of the call, None when idle
    result,             \* the dict the call returned, None when idle
    model_file_exists,  \* os.path.exists(self.model_path)
    pest_detection_service, \* the global of the router: None or the instance
    image,              \* the upload of the request in flight
    response,           \* what the endpoint answered
    callers,            \* the requests in flight when several are served
    constructions,      \* how many times PestDetectionService() has run
    batch,              \* files, results and total_size of batch-detect
    risk_request        \* the JSON body of the request to /predict

\* the variables of the service
serviceVars == <<disease_mapping, argsort_stable, pc, predictions, result>>

\* the variables of the router in front of it
routerVars ==
    <<model_file_exists, pest_detection_service, image, response, callers,
      constructions, batch, risk_request>>

vars == <<serviceVars, routerVars>>

None == [none |-> TRUE]

\* the router as it stands once the service is up and no request is in flight
RouterReady ==
    /\ model_file_exists = TRUE
    /\ pest_detection_service = [is_loaded |-> TRUE]
    /\ image = None
    /\ response = None
    /\ callers = <<>>
    /\ constructions = 1
    /\ batch = None
    /\ risk_request = None

\* the vector of the plain normal case of the specification
PlainNormalVector(mapping) ==
    LET head == <<55, 20, 15, 6, 4>>
    IN  [id \in DOMAIN mapping |-> IF id < Len(head) THEN head[id + 1] ELSE 0]

GridVectors(mapping) ==
    {[id \in DOMAIN mapping |-> IF id \in ActiveIds THEN f[id] ELSE 0] :
        f \in [ActiveIds -> Levels]}

\* the sum of the entries of a vector
RECURSIVE SumOver(_, _)
SumOver(p, ids) ==
    IF ids = {} THEN 0
    ELSE LET id == CHOOSE i \in ids : TRUE
         IN  p[id] + SumOver(p, ids \ {id})

VectorSum(p) == SumOver(p, DOMAIN p)

\* confidence values of a softmax output with one class above 0.95
PeakLevels == {0, 1, 2, 3, 4, 96, 97, 100}

\* softmax outputs (sum at most 1) whose largest entry is above 0.95
PeakedVectors(mapping) ==
    {[id \in DOMAIN mapping |-> IF id \in ActiveIds THEN f[id] ELSE 0] :
        f \in {g \in [ActiveIds -> PeakLevels] :
                  /\ SumOver(g, ActiveIds) <= 100
                  /\ \E id \in ActiveIds : g[id] > 95}}

\* the probability vectors the classifier may supply
Vectors(mapping) ==
    GridVectors(mapping) \cup {PlainNormalVector(mapping)}
        \cup PeakedVectors(mapping)

Init ==
    /\ disease_mapping = shipped_disease_mapping
    /\ argsort_stable \in BOOLEAN
    /\ pc = "idle"
    /\ predictions = None
    /\ result = None
    /\ RouterReady

\* the service with the mapping of the previous model
InitLegacy ==
    /\ disease_mapping = legacy_disease_mapping
    /\ argsort_stable \in BOOLEAN
    /\ pc = "idle"
    /\ predictions = None
    /\ result = None
    /\ RouterReady

\* predict_disease on a vector the classifier supplies:
\* result = self._apply_bias_mitigation(predictions[0])
predict_disease ==
    /\ pc = "idle"
    /\ \E v \in Vectors(disease_mapping) :
          /\ predictions' = v
          /\ result' = apply_bias_mitigation(disease_mapping, argsort_stable, v)
    /\ pc' = "returned"
    /\ UNCHANGED <<disease_mapping, argsort_stable>>
    /\ UNCHANGED routerVars

\* the caller has read the result; nothing of the call is retained
Return ==
    /\ pc = "returned"
    /\ pc' = "idle"
    /\ predictions' = None
    /\ result' = None
    /\ UNCHANGED <<disease_mapping, argsort_stable>>
    /\ UNCHANGED routerVars

Next ==
    \/ predict_disease
    \/ Return

Spec == Init /\ [][Next]_vars

SpecLegacy == InitLegacy /\ [][Next]_vars

(***************************************************************************)
(* The root endpoint, one request at a time, from a process that has just  *)
(* started: the service is built by the first request that needs it.       *)
(***************************************************************************)
\* confidence values (hundredths) of the vectors sent through the endpoint
EndpointLevels == {0, 20, 40, 59, 85, 96}

\* outputs of a model file that does not fit the mapping: one class more
\* than the mapping has, one class fewer, an entry above 1, an entry below 0
OversizedVector(mapping) ==
    LET n == Cardinality(DOMAIN mapping)
    IN  [id \in 0..n |-> IF id = n THEN 75 ELSE IF id = ActiveOrder[1] THEN 20 ELSE 0]

UndersizedVector(mapping) ==
    LET n == Cardinality(DOMAIN mapping)
    IN  [id \in 0..(n - 2) |-> IF id = ActiveOrder[1] THEN 75 ELSE 0]

AboveOneVector(mapping) ==
    [id \in DOMAIN mapping |-> IF id = ActiveOrder[1] THEN 150 ELSE 0]

BelowZeroVector(mapping) ==
    [id \in DOMAIN mapping |->
        IF id = ActiveOrder[1] THEN 75
        ELSE IF id = ActiveOrder[2] THEN 0 - 20 ELSE 0]

MalformedVectors(mapping) ==
    {OversizedVector(mapping), UndersizedVector(mapping),
     AboveOneVector(mapping), BelowZeroVector(mapping)}

\* what self.model.predict may give: the model file is whatever is on disk
ModelOutputs(mapping) ==
    {[id \in DOMAIN mapping |-> IF id \in ActiveIds THEN f[id] ELSE 0] :
        f \in [ActiveIds -> EndpointLevels]}
    \cup MalformedVectors(mapping)

\* the uploads a client may send; bytes PIL can open are not empty
Uploads ==
    {u \in [is_image : BOOLEAN,
            size : {0, 1, MaxImageBytes, MaxImageBytes + 1},
            decodable : BOOLEAN] : u.decodable => u.size > 0}

InitEndpoint ==
    /\ disease_mapping = None
    /\ argsort_stable \in BOOLEAN
    /\ pc = "idle"
    /\ predictions = None
    /\ result = None
    /\ model_file_exists \in BOOLEAN
    /\ pest_detection_service = None
    /\ image = None
    /\ response = None
    /\ callers = <<>>
    /\ constructions = 0
    /\ batch = None
    /\ risk_request = None

\* PestDetectionService(): the mapping literal, then load_model, which
\* leaves is_loaded False when the file is missing
PestDetectionService == [is_loaded |-> model_file_exists]

\* raise HTTPException(status_code=503, ...)
ServiceUnavailable ==
    JSONResponse(503,
        [detail |-> "Pest detection model is not available. Please try again later."])

\* the dependency building a new service whenever the one it holds has no
\* model loaded
get_pest_detection_service_retrying ==
    /\ pc = "idle"
    /\ LET build == \/ pest_detection_service = None
                    \/ ~pest_detection_service.is_loaded
           service == IF build THEN PestDetectionService
                      ELSE pest_detection_service
       IN  /\ pest_detection_service' = service
           /\ IF build
              THEN /\ disease_mapping' = shipped_disease_mapping
                   /\ constructions' = constructions + 1
              ELSE UNCHANGED <<disease_mapping, constructions>>
           /\ IF service.is_loaded
              THEN pc' = "resolved" /\ response' = None
              ELSE pc' = "responded" /\ response' = ServiceUnavailable
    /\ UNCHANGED <<argsort_stable, predictions, result, model_file_exists,
                   image, callers>>
    /\ UNCHANGED <<batch, risk_request>>

\* the dependency of every endpoint, run before the handler
get_pest_detection_service ==
    /\ pc = "idle"
    /\ LET service == IF pest_detection_service = None
                      THEN PestDetectionService
                      ELSE pest_detection_service
       IN  /\ pest_detection_service' = service
           /\ IF pest_detection_service = None
              THEN /\ disease_mapping' = shipped_disease_mapping
                   /\ constructions' = constructions + 1
              ELSE UNCHANGED <<disease_mapping, constructions>>
           /\ IF service.is_loaded
              THEN pc' = "resolved" /\ response' = None
              ELSE pc' = "responded" /\ response' = ServiceUnavailable
    /\ UNCHANGED <<argsort_stable, predictions, result, model_file_exists,
                   image, callers>>
    /\ UNCHANGED <<batch, risk_request>>

\* POST /: the whole handler on one upload
predict_disease_root ==
    /\ pc = "resolved"
    /\ \E upload \in Uploads :
          /\ image' = upload
          /\ IF "accepted" \notin DOMAIN upload_rejection(upload)
             THEN /\ response' = upload_rejection(upload)
                  /\ predictions' = None
                  /\ result' = None
             ELSE \E model_output \in IF upload.decodable
                                      THEN ModelOutputs(disease_mapping)
                                      ELSE {None} :
                      /\ predictions' = model_output
                      /\ result' = predict_from_image_bytes(disease_mapping,
                                       argsort_stable, upload, model_output)
                      /\ response' = root_answer(result')
    /\ pc' = "responded"
    /\ UNCHANGED <<disease_mapping, argsort_stable, model_file_exists,
                   pest_detection_service, callers, constructions>>
    /\ UNCHANGED <<batch, risk_request>>

\* the answer has gone out; the service stays
Respond ==
    /\ pc = "responded"
    /\ pc' = "idle"
    /\ image' = None
    /\ predictions' = None
    /\ result' = None
    /\ response' = None
    /\ batch' = None
    /\ risk_request' = None
    /\ UNCHANGED <<disease_mapping, argsort_stable, model_file_exists,
                   pest_detection_service, callers, constructions>>

\* the model file is put in place while the process runs
model_file_installed ==
    /\ model_file_exists = FALSE
    /\ model_file_exists' = TRUE
    /\ UNCHANGED <<serviceVars, pest_detection_service, image, response,
                   callers, constructions, batch, risk_request>>

NextEndpoint ==
    \/ model_file_installed
    \/ get_pest_detection_service
    \/ predict_disease_root
    \/ Respond

SpecEndpoint == InitEndpoint /\ [][NextEndpoint]_vars

(***************************************************************************)
(* The service and the root endpoint on vectors with five decimal places,  *)
(* the service up and loaded, under either mapping.                        *)
(***************************************************************************)
\* confidence values in hundred-thousandths, none half-way between two
\* neighbours of the fourth place
PreciseLevels == {0, 20004, 59996, 61236, 85004, 93336, 97004}

PreciseVectors(mapping) ==
    {[id \in DOMAIN mapping |-> IF id \in ActiveIds THEN f[id] ELSE 0] :
        f \in [ActiveIds -> PreciseLevels]}

InitPrecise ==
    /\ disease_mapping \in {shipped_disease_mapping, legacy_disease_mapping}
    /\ argsort_stable \in BOOLEAN
    /\ pc = "idle"
    /\ predictions = None
    /\ result = None
    /\ RouterReady

\* predict_disease on a vector of the classifier
predict_disease_precise ==
    /\ pc = "idle"
    /\ \E v \in PreciseVectors(disease_mapping) :
          /\ predictions' = v
          /\ result' = apply_bias_mitigation_precise(disease_mapping,
                           argsort_stable, v)
    /\ pc' = "returned"
    /\ UNCHANGED <<disease_mapping, argsort_stable>>
    /\ UNCHANGED routerVars

\* POST /: the whole handler on one upload
predict_disease_root_precise ==
    /\ pc = "resolved"
    /\ \E upload \in Uploads :
          /\ image' = upload
          /\ IF "accepted" \notin DOMAIN upload_rejection(upload)
             THEN /\ response' = upload_rejection(upload)
                  /\ predictions' = None
                  /\ result' = None
             ELSE \E model_output \in IF upload.decodable
                                      THEN PreciseVectors(disease_mapping)
                                      ELSE {None} :
                      /\ predictions' = model_output
                      /\ result' = predict_from_image_bytes_precise(
                                       disease_mapping, argsort_stable,
                                       upload, model_output)
                      /\ response' = root_answer(result')
    /\ pc' = "responded"
    /\ UNCHANGED <<disease_mapping, argsort_stable, model_file_exists,
                   pest_detection_service, callers, constructions>>
    /\ UNCHANGED <<batch, risk_request>>

NextPrecise ==
    \/ predict_disease_precise
    \/ Return
    \/ get_pest_detection_service
    \/ predict_disease_root_precise
    \/ Respond

SpecPrecise == InitPrecise /\ [][NextPrecise]_vars

(***************************************************************************)
(* Several requests to POST /detect-disease and POST                       *)
(* /detect-disease-base64 in flight at once.  The                          *)
(* dependency get_pest_detection_service is a plain def, which the         *)
(* framework runs on a worker thread per request: its test of the global,  *)
(* the construction and the test of is_model_loaded are separate steps of  *)
(* each request.  The handler is a coroutine that never awaits between     *)
(* reading the upload and returning, one step.                             *)
(***************************************************************************)
\* number of requests in flight
MaxCallers == 2

Callers == 1..MaxCallers

HTTPException(code, text) == [status_code |-> code, content |-> [detail |-> text]]

\* the handler without its clause "except HTTPException: raise": what the
\* handler raised itself is caught as any exception and comes out as 500
detect_disease_answer_catch_all(upload, raw) ==
    LET raised ==
            IF ~upload.is_image
            THEN "400: Invalid file type. Please upload an image file (JPEG, PNG, JPG)."
            ELSE IF upload.size > MaxImageBytes
            THEN "400: File size too large. Please upload an image smaller than 10MB."
            ELSE IF upload.size = 0
            THEN "400: Empty file uploaded. Please upload a valid image."
            ELSE IF "error" \in DOMAIN raw
            THEN "500: Disease detection failed: " \o raw.error
            ELSE ""
    IN  IF raised # ""
        THEN HTTPException(500,
                 "An error occurred while processing the image: " \o raised)
        ELSE JSONResponse(200, raw)

\* the answer of detect_disease_from_upload for an upload and, when the
\* upload passes the checks, raw = service.predict_from_image_bytes(content);
\* an HTTPException raised in the handler leaves it as it is
detect_disease_answer(upload, raw) ==
    IF ~upload.is_image
    THEN HTTPException(400,
             "Invalid file type. Please upload an image file (JPEG, PNG, JPG).")
    ELSE IF upload.size > MaxImageBytes
    THEN HTTPException(400,
             "File size too large. Please upload an image smaller than 10MB.")
    ELSE IF upload.size = 0
    THEN HTTPException(400, "Empty file uploaded. Please upload a valid image.")
    ELSE IF "error" \in DOMAIN raw
    THEN HTTPException(500, "Disease detection failed: " \o raw.error)
    ELSE JSONResponse(200, raw)

\* the answer of detect_disease_from_base64 for a request body and, when
\* the body passes the checks, raw = service.predict_from_base64(...).  A
\* body is the record [has_field, is_str, truthy, decodable]: whether it has
\* the key "base64_image", whether the value is a str, whether it is truthy,
\* whether it decodes to bytes PIL can open
detect_disease_base64_answer(request, raw) ==
    IF ~request.has_field
    THEN HTTPException(400, "Missing 'base64_image' field in request body.")
    ELSE IF ~request.truthy \/ ~request.is_str
    THEN HTTPException(400,
             "Invalid base64_image. Please provide a valid base64 encoded image string.")
    ELSE IF "error" \in DOMAIN raw
    THEN HTTPException(500, "Disease detection failed: " \o raw.error)
    ELSE JSONResponse(200, raw)

\* a few vectors, one per kind of record the shipped mapping can give, the
\* first with two equal largest entries
ProbeVectors(mapping) ==
    {[id \in DOMAIN mapping |->
         IF id = ActiveOrder[1] THEN c[1]
         ELSE IF id = ActiveOrder[2] THEN c[2] ELSE 0] :
        c \in {<<75, 75>>, <<59, 20>>, <<96, 40>>, <<90, 20>>}}

\* an image the model can read, a file that is no image, an image file PIL
\* cannot open, an empty one and one of more than 10MB
ProbeUploads ==
    {[is_image |-> TRUE, size |-> 1, decodable |-> TRUE],
     [is_image |-> FALSE, size |-> 1, decodable |-> FALSE],
     [is_image |-> TRUE, size |-> 1, decodable |-> FALSE],
     [is_image |-> TRUE, size |-> 0, decodable |-> FALSE],
     [is_image |-> TRUE, size |-> MaxImageBytes + 1, decodable |-> TRUE]}

\* request bodies of POST /detect-disease-base64: {}, {"base64_image": 7},
\* {"base64_image": ""}, {"base64_image": "invalid_base64"} and an image
ProbeBodies ==
    {[has_field |-> FALSE, is_str |-> FALSE, truthy |-> FALSE, decodable |-> FALSE],
     [has_field |-> TRUE, is_str |-> FALSE, truthy |-> TRUE, decodable |-> FALSE],
     [has_field |-> TRUE, is_str |-> TRUE, truthy |-> FALSE, decodable |-> FALSE],
     [has_field |-> TRUE, is_str |-> TRUE, truthy |-> TRUE, decodable |-> FALSE],
     [has_field |-> TRUE, is_str |-> TRUE, truthy |-> TRUE, decodable |-> TRUE]}

Arrived == [pc |-> "arrived", image |-> None, predictions |-> None,
            response |-> None]

InitConcurrent ==
    /\ disease_mapping = None
    /\ argsort_stable \in BOOLEAN
    /\ pc = "idle"
    /\ predictions = None
    /\ result = None
    /\ model_file_exists \in BOOLEAN
    /\ pest_detection_service = None
    /\ image = None
    /\ response = None
    /\ callers = [c \in Callers |-> Arrived]
    /\ constructions = 0
    /\ batch = None
    /\ risk_request = None

\* if pest_detection_service is None:
dependency_test(c) ==
    /\ callers[c].pc = "arrived"
    /\ callers' = [callers EXCEPT ![c].pc =
                      IF pest_detection_service = None
                      THEN "constructing" ELSE "constructed"]
    /\ UNCHANGED <<serviceVars, model_file_exists, pest_detection_service,
                   image, response, constructions>>
    /\ UNCHANGED <<batch, risk_request>>

\* pest_detection_service = PestDetectionService()
dependency_construct(c) ==
    /\ callers[c].pc = "constructing"
    /\ pest_detection_service' = PestDetectionService
    /\ disease_mapping' = shipped_disease_mapping
    /\ constructions' = constructions + 1
    /\ callers' = [callers EXCEPT ![c].pc = "constructed"]
    /\ UNCHANGED <<argsort_stable, pc, predictions, result, model_file_exists,
                   image, response>>
    /\ UNCHANGED <<batch, risk_request>>

\* if not pest_detection_service.is_model_loaded(): raise ... 503
dependency_return(c) ==
    /\ callers[c].pc = "constructed"
    /\ callers' = [callers EXCEPT ![c] =
                      IF pest_detection_service.is_loaded
                      THEN [@ EXCEPT !.pc = "resolved"]
                      ELSE [@ EXCEPT !.pc = "responded",
                                     !.response = ServiceUnavailable]]
    /\ UNCHANGED <<serviceVars, model_file_exists, pest_detection_service,
                   image, response, constructions>>
    /\ UNCHANGED <<batch, risk_request>>

\* the handler writes the cleaned name of the top class back into the mapping
detect_disease_from_upload_caching_names(c) ==
    /\ callers[c].pc = "resolved"
    /\ \E upload \in ProbeUploads :
          \E model_output \in IF upload.decodable
                               THEN ProbeVectors(disease_mapping) ELSE {None} :
              LET raw == predict_from_image_bytes(disease_mapping,
                             argsort_stable, upload, model_output)
              IN  /\ callers' = [callers EXCEPT ![c] =
                         [pc |-> "responded", image |-> upload,
                          predictions |-> model_output,
                          response |-> detect_disease_answer(upload, raw)]]
                  /\ disease_mapping' =
                         IF upload.decodable
                         THEN LET top == argsort_desc(model_output,
                                             argsort_stable, 1)[1]
                              IN  [disease_mapping EXCEPT
                                      ![top] = cleaned(disease_mapping[top])]
                         ELSE disease_mapping
    /\ UNCHANGED <<argsort_stable, pc, predictions, result, model_file_exists,
                   pest_detection_service, image, response, constructions>>
    /\ UNCHANGED <<batch, risk_request>>

\* the handler of POST /detect-disease on one upload
detect_disease_from_upload(c) ==
    /\ callers[c].pc = "resolved"
    /\ \E upload \in ProbeUploads :
          \E model_output \in IF upload.decodable /\ upload.size <= MaxImageBytes
                               THEN ProbeVectors(disease_mapping) ELSE {None} :
              LET raw == predict_from_image_bytes(disease_mapping,
                             argsort_stable, upload, model_output)
              IN  callers' = [callers EXCEPT ![c] =
                      [pc |-> "responded", image |-> upload,
                       predictions |-> model_output,
                       response |-> detect_disease_answer(upload, raw)]]
    /\ UNCHANGED <<serviceVars, model_file_exists, pest_detection_service,
                   image, response, constructions>>
    /\ UNCHANGED <<batch, risk_request>>

\* the handler of POST /detect-disease-base64 on one request body
detect_disease_from_base64(c) ==
    /\ callers[c].pc = "resolved"
    /\ \E request \in ProbeBodies :
          \E model_output \in IF request.decodable
                               THEN ProbeVectors(disease_mapping) ELSE {None} :
              LET raw == predict_from_base64(disease_mapping,
                             argsort_stable, request, model_output)
              IN  callers' = [callers EXCEPT ![c] =
                      [pc |-> "responded", image |-> request,
                       predictions |-> model_output,
                       response |-> detect_disease_base64_answer(request, raw)]]
    /\ UNCHANGED <<serviceVars, model_file_exists, pest_detection_service,
                   image, response, constructions>>
    /\ UNCHANGED <<batch, risk_request>>

\* the answer has gone out and the client sends its next request
next_request(c) ==
    /\ callers[c].pc = "responded"
    /\ callers' = [callers EXCEPT ![c] = Arrived]
    /\ UNCHANGED <<serviceVars, model_file_exists, pest_detection_service,
                   image, response, constructions>>
    /\ UNCHANGED <<batch, risk_request>>

NextConcurrent ==
    \E c \in Callers :
        \/ dependency_test(c)
        \/ dependency_construct(c)
        \/ dependency_return(c)
        \/ detect_disease_from_upload(c)
        \/ detect_disease_from_base64(c)
        \/ next_request(c)

SpecConcurrent == InitConcurrent /\ [][NextConcurrent]_vars

(***************************************************************************)
(* POST /batch-detect, one request at a time, the service up and loaded.   *)
(* The handler awaits file.read() once per file: one step per file, the    *)
(* files of the request drawn as the loop reaches them.                    *)
(***************************************************************************)
\* number of files of a batch the loop goes through
MaxFiles == 4

\* len(files) > 10
BatchLimit == 10

\* 50 * 1024 * 1024, the largest running total under which a file is predicted
MaxBatchBytes == 50 * 1024 * 1024

\* files of a batch: [filename, is_image, size, decodable]
BatchFiles ==
    {[filename |-> "notes.txt", is_image |-> FALSE, size |-> 1, decodable |-> FALSE],
     [filename |-> "empty.jpg", is_image |-> TRUE, size |-> 0, decodable |-> FALSE],
     [filename |-> "leaf.jpg", is_image |-> TRUE, size |-> 1, decodable |-> TRUE],
     [filename |-> "field.jpg", is_image |-> TRUE, size |-> MaxImageBytes,
      decodable |-> TRUE],
     [filename |-> "scan.png", is_image |-> TRUE, size |-> MaxImageBytes + 1,
      decodable |-> TRUE],
     [filename |-> "mosaic.png", is_image |-> TRUE, size |-> MaxBatchBytes,
      decodable |-> TRUE]}

\* what the model gives for the files of a batch: a plain record and a
\* low-confidence one
BatchVectors(mapping) ==
    {[id \in DOMAIN mapping |->
         IF id = ActiveOrder[1] THEN c[1]
         ELSE IF id = ActiveOrder[2] THEN c[2] ELSE 0] :
        c \in {<<75, 20>>, <<59, 20>>}}

\* r.get(key, default)
dict_get(r, key, default) == IF key \in DOMAIN r THEN r[key] ELSE default

\* the entry the loop appends for file number i, total_size being the
\* running total after the file was read
batch_entry(mapping, stable, i, file, total_size, model_output) ==
    IF ~file.is_image
    THEN [file_index |-> i, filename |-> file.filename, success |-> FALSE,
          error |-> "Invalid file type"]
    ELSE IF file.size > MaxImageBytes
    THEN [file_index |-> i, filename |-> file.filename, success |-> FALSE,
          error |-> "File size too large (>10MB)"]
    ELSE IF total_size > MaxBatchBytes
    THEN [file_index |-> i, filename |-> file.filename, success |-> FALSE,
          error |-> "Total batch size too large"]
    ELSE [file_index |-> i, filename |-> file.filename, file_size |-> file.size]
             @@ predict_from_image_bytes(mapping, stable, file, model_output)

\* the summary the handler returns after the loop
batch_summary(total_files, total_size, results) ==
    LET successful_predictions ==
            {k \in 1..Len(results) : dict_get(results[k], "success", FALSE)}
        failed_predictions ==
            {k \in 1..Len(results) : ~dict_get(results[k], "success", FALSE)}
    IN  [success |-> TRUE,
         message |-> "Batch disease detection completed",
         total_files |-> total_files,
         successful_predictions |-> Cardinality(successful_predictions),
         failed_predictions |-> Cardinality(failed_predictions),
         total_size_bytes |-> total_size,
         results |-> results]

\* the handler up to the loop: the limit on the number of files
batch_detect_start ==
    /\ pc = "resolved"
    /\ \E total_files \in (0..MaxFiles) \cup {BatchLimit + 1} :
          IF total_files > BatchLimit
          THEN /\ response' = HTTPException(400,
                      "Too many files. Maximum 10 images allowed per batch.")
               /\ batch' = None
               /\ pc' = "responded"
          ELSE /\ batch' = [total_files |-> total_files, files |-> <<>>,
                            total_size |-> 0, results |-> <<>>]
               /\ response' = None
               /\ pc' = "batching"
    /\ UNCHANGED <<disease_mapping, argsort_stable, predictions, result,
                   model_file_exists, pest_detection_service, image, callers,
                   constructions, risk_request>>

\* the loop with total_size += file_size moved behind the check of the
\* file's own size
batch_detect_file_counting_accepted ==
    /\ pc = "batching"
    /\ Len(batch.files) < batch.total_files
    /\ \E file \in BatchFiles :
          \E model_output \in IF file.decodable
                               THEN BatchVectors(disease_mapping) ELSE {None} :
              LET i == Len(batch.files)
                  total_size == IF file.is_image /\ file.size <= MaxImageBytes
                                THEN batch.total_size + file.size
                                ELSE batch.total_size
              IN  batch' = [batch EXCEPT
                      !.files = Append(@, file),
                      !.total_size = total_size,
                      !.results = Append(@, batch_entry(disease_mapping,
                                      argsort_stable, i, file, total_size,
                                      model_output))]
    /\ UNCHANGED <<disease_mapping, argsort_stable, pc, predictions, result,
                   model_file_exists, pest_detection_service, image, response,
                   callers, constructions, risk_request>>

\* one pass of the loop: a file that is no image is not read, every other
\* file is read and counted before its size is looked at
batch_detect_file ==
    /\ pc = "batching"
    /\ Len(batch.files) < batch.total_files
    /\ \E file \in BatchFiles :
          \E model_output \in IF file.decodable
                               THEN BatchVectors(disease_mapping) ELSE {None} :
              LET i == Len(batch.files)
                  total_size == IF file.is_image
                                THEN batch.total_size + file.size
                                ELSE batch.total_size
              IN  batch' = [batch EXCEPT
                      !.files = Append(@, file),
                      !.total_size = total_size,
                      !.results = Append(@, batch_entry(disease_mapping,
                                      argsort_stable, i, file, total_size,
                                      model_output))]
    /\ UNCHANGED <<disease_mapping, argsort_stable, pc, predictions, result,
                   model_file_exists, pest_detection_service, image, response,
                   callers, constructions, risk_request>>

\* after the last file: the summary
batch_detect_finish ==
    /\ pc = "batching"
    /\ Len(batch.files) = batch.total_files
    /\ response' = JSONResponse(200,
           batch_summary(batch.total_files, batch.total_size, batch.results))
    /\ pc' = "responded"
    /\ UNCHANGED <<disease_mapping, argsort_stable, predictions, result,
                   model_file_exists, pest_detection_service, image, callers,
                   constructions, batch, risk_request>>

NextBatch ==
    \/ get_pest_detection_service
    \/ batch_detect_start
    \/ batch_detect_file
    \/ batch_detect_finish
    \/ Respond

SpecBatch == Init /\ [][NextBatch]_vars

(***************************************************************************)
(* POST /predict: the pest risk of environmental conditions.  Scores are   *)
(* in tenths of a point, the confidence in twentieths (0.05), so that the  *)
(* season multipliers 1.2, 1.3, 0.7 and the factor 0.5 are whole numbers.  *)
(***************************************************************************)
\* season_multiplier of calculate_pest_risk, in tenths
season_multiplier ==
    [s \in {"summer", "monsoon", "winter", "spring"} |->
        IF s = "summer" THEN 12
        ELSE IF s = "monsoon" THEN 13
        ELSE IF s = "winter" THEN 7
        ELSE 10]

\* the score without the final min(100, max(0, ...))
calculate_pest_risk_uncapped(temperature, humidity, rainfall, season) ==
    LET temperature_factor ==
            IF 25 <= temperature /\ temperature <= 35 THEN 30
            ELSE IF \/ 20 <= temperature /\ temperature < 25
                    \/ 35 < temperature /\ temperature <= 40 THEN 20
            ELSE IF \/ 15 <= temperature /\ temperature < 20
                    \/ 40 < temperature /\ temperature <= 45 THEN 10
            ELSE 0
        humidity_factor ==
            IF humidity >= 80 THEN 35
            ELSE IF humidity >= 60 THEN 25
            ELSE IF humidity >= 40 THEN 15
            ELSE 5
        rainfall_factor ==
            IF 50 <= rainfall /\ rainfall <= 200 THEN 25
            ELSE IF 200 < rainfall /\ rainfall <= 400 THEN 15
            ELSE IF rainfall > 400 THEN 10
            ELSE 5
        multiplier == dict_get(season_multiplier, str_lower(season), 10)
    IN  (temperature_factor + humidity_factor + rainfall_factor) * multiplier

\* calculate_pest_risk, in tenths of a point
calculate_pest_risk(temperature, humidity, rainfall, season) ==
    LET temperature_factor ==
            IF 25 <= temperature /\ temperature <= 35 THEN 30
            ELSE IF \/ 20 <= temperature /\ temperature < 25
                    \/ 35 < temperature /\ temperature <= 40 THEN 20
            ELSE IF \/ 15 <= temperature /\ temperature < 20
                    \/ 40 < temperature /\ temperature <= 45 THEN 10
            ELSE 0
        humidity_factor ==
            IF humidity >= 80 THEN 35
            ELSE IF humidity >= 60 THEN 25
            ELSE IF humidity >= 40 THEN 15
            ELSE 5
        rainfall_factor ==
            IF 50 <= rainfall /\ rainfall <= 200 THEN 25
            ELSE IF 200 < rainfall /\ rainfall <= 400 THEN 15
            ELSE IF rainfall > 400 THEN 10
            ELSE 5
        multiplier == dict_get(season_multiplier, str_lower(season), 10)
        risk_score ==
            (temperature_factor + humidity_factor + rainfall_factor) * multiplier
    IN  Min2(100 * 10, Max({0, risk_score}))

\* crop_pests of get_common_pests, names only
crop_pests ==
    [crop \in {"rice", "wheat", "maize"} |->
        IF crop = "rice" THEN <<"Brown planthopper", "Rice stem borer">>
        ELSE IF crop = "wheat" THEN <<"Wheat aphid", "Armyworm">>
        ELSE <<"Fall armyworm", "Corn borer">>]

\* get_common_pests, the names of the pests it lists: pests[:5]
get_common_pests(temperature, humidity, season, crop_type) ==
    LET pests ==
            (IF temperature >= 25 /\ humidity >= 60
             THEN <<"Aphids", "Whiteflies">> ELSE <<>>)
            \o (IF humidity >= 80
                THEN <<"Fungal diseases", "Slugs and snails">> ELSE <<>>)
            \o dict_get(crop_pests, str_lower(crop_type), <<>>)
    IN  SubSeq(pests, 1, Min2(5, Len(pests)))

\* the response of predict_pest_risk for a request body; risk_score is
\* round(risk_score, 1), the score itself being a whole number of tenths
predict_pest_risk_answer(body) ==
    LET temperature == dict_get(body, "temperature", 25)
        humidity == dict_get(body, "humidity", 60)
        rainfall == dict_get(body, "rainfall", 100)
        season == dict_get(body, "season", "summer")
        crop_type == dict_get(body, "crop_type", "rice")
        risk_score == calculate_pest_risk(temperature, humidity, rainfall, season)
        risk_level ==
            IF risk_score >= 80 * 10 THEN "Very High"
            ELSE IF risk_score >= 60 * 10 THEN "High"
            ELSE IF risk_score >= 40 * 10 THEN "Medium"
            ELSE IF risk_score >= 20 * 10 THEN "Low"
            ELSE "Very Low"
        color ==
            IF risk_score >= 80 * 10 THEN "red"
            ELSE IF risk_score >= 60 * 10 THEN "orange"
            ELSE IF risk_score >= 40 * 10 THEN "yellow"
            ELSE IF risk_score >= 20 * 10 THEN "lightgreen"
            ELSE "green"
        distance == IF risk_score >= 50 * 10
                    THEN risk_score - 50 * 10 ELSE 50 * 10 - risk_score
    IN  JSONResponse(200,
            [success |-> TRUE,
             pest_risk |->
                 [risk_score |-> risk_score,
                  risk_level |-> risk_level,
                  color |-> color,
                  confidence |->
                      Min2(95 * 20, Max({70 * 20, 100 * 20 - distance}))],
             environmental_factors |->
                 [temperature |-> temperature, humidity |-> humidity,
                  rainfall |-> rainfall, season |-> season,
                  crop_type |-> crop_type],
             common_pests |->
                 get_common_pests(temperature, humidity, season, crop_type),
             recommendations |-> <<>>,
             prediction_date |-> "2024-01-20T10:00:00Z"])

\* request bodies: every combination of values on both sides of each
\* boundary of calculate_pest_risk, and bodies that leave keys out
RiskBodies ==
    [temperature : {0 - 5, 15, 19, 20, 24, 25, 35, 36, 40, 41, 45, 46},
     humidity : {39, 40, 59, 60, 79, 80},
     rainfall : {49, 50, 200, 201, 400, 401},
     season : {"summer", "Monsoon", "winter", "spring", "autumn"},
     crop_type : {"rice", "Maize", "barley"}]
    \cup {[crop_type |-> "wheat"], [season |-> "WINTER", humidity |-> 20]}

\* the handler of POST /predict on one request body
predict_pest_risk ==
    /\ pc = "idle"
    /\ \E body \in RiskBodies :
          /\ risk_request' = body
          /\ response' = predict_pest_risk_answer(body)
    /\ pc' = "responded"
    /\ UNCHANGED <<disease_mapping, argsort_stable, predictions, result,
                   model_file_exists, pest_detection_service, image, callers,
                   constructions, batch>>

NextRisk ==
    \/ predict_pest_risk
    \/ Respond

SpecRisk == Init /\ [][NextRisk]_vars

(***************************************************************************)
(* Vocabulary of the properties: the call in flight as the policy sees it. *)
(* Values are the literal ones of the specification, in hundredths.        *)
(***************************************************************************)
Returned == pc = "returned"

\* the class ids of the call at ranks 1..k
Ranking(k) == argsort_desc(predictions, argsort_stable, k)

LabelOf(class_id) == cleaned(mapping_get(disease_mapping, class_id))

\* membership of a label in the bias registry
InRegistry(label) ==
    \E k \in 1..Len(problematic_predictions) : label = problematic_predictions[k]

HasPrefix(s, prefix) == StartsWithAt(s, 1, prefix)

\* conf (ten-thousandths) is sum / n (hundredths) to four decimal places
ToFourDecimals(conf, sum, n) ==
    LET d == n * conf - 100 * sum
    IN  2 * d <= n /\ 2 * d >= 0 - n

\* the rule a returned record comes from
FiredRule ==
    IF result.status = "low_confidence" THEN 1
    ELSE IF result.status = "bias_adjusted"
    THEN (IF HasPrefix(result.prediction, "High Confidence with Uncertainty: ")
          THEN 3 ELSE 2)
    ELSE IF result.status = "high_confidence_with_alternatives" THEN 4
    ELSE IF result.status = "normal" THEN 5
    ELSE 0

\* the first rule of the policy whose condition holds, in the order 1 low
\* confidence, 2 known bias, 3 dominance gap, 4 over-confident, 5 default
FirstRule ==
    LET r == Ranking(2)
        c1 == predictions[r[1]]
        c2 == predictions[r[2]]
    IN  IF c1 < 60 THEN 1
        ELSE IF InRegistry(LabelOf(r[1])) /\ c1 > 70 THEN 2
        ELSE IF c1 > 80 /\ c1 - c2 > 60 THEN 3
        ELSE IF c1 > 95 THEN 4
        ELSE 5

Statuses ==
    {"normal", "low_confidence", "bias_adjusted",
     "high_confidence_with_alternatives"}

\* the entries at ranks 2..4 as (label, confidence) pairs
RankedAlternatives ==
    LET r == Ranking(4)
    IN  [i \in 1..3 |-> [prediction |-> LabelOf(r[i + 1]),
                         confidence |-> 100 * predictions[r[i + 1]]]]

(***************************************************************************)
(* C1.  Every call returns one record whose status is one of the four      *)
(* statuses, and the record is the one of the first rule that matches in   *)
(* the order low confidence, known bias, dominance gap, over-confident,    *)
(* default; an unflagged top-1 above 0.95 with a gap above 0.6 is          *)
(* bias_adjusted.                                                          *)
(***************************************************************************)
C1_FirstMatchingRule ==
    Returned =>
        LET r == Ranking(2)
            c1 == predictions[r[1]]
            c2 == predictions[r[2]]
        IN  /\ result.status \in Statuses
            /\ FiredRule = FirstRule
            /\ (~InRegistry(LabelOf(r[1])) /\ c1 > 95 /\ c1 - c2 > 60)
                  => result.status = "bias_adjusted"

C1_Witness ==
    /\ Returned
    /\ LET r == Ranking(2)
       IN  /\ ~InRegistry(LabelOf(r[1]))
           /\ predictions[r[1]] > 95
           /\ predictions[r[1]] - predictions[r[2]] > 60
    /\ result.status = "bias_adjusted"

KnownBiasRecord ==
    /\ result.status = "bias_adjusted"
    /\ FiredRule = 2
    /\ result.original_prediction = LabelOf(Ranking(1)[1])

C7_PlainNormalCase ==
    (Returned /\ predictions = PlainNormalVector(disease_mapping)) =>
        /\ result.status = "normal"
        /\ result.prediction = LabelOf(0)
        /\ result.confidence = 5500

\* C7 amended: 0.55 is below 0.6, the low-confidence rule fires
C7_PlainCaseIsLowConfidence ==
    (Returned /\ predictions = PlainNormalVector(disease_mapping)) =>
        /\ ~InRegistry(LabelOf(Ranking(1)[1]))
        /\ result.status = "low_confidence"
        /\ result.prediction = "Uncertain - Low Confidence Detection"
        /\ result.confidence = 5500

C7_Witness ==
    /\ Returned
    /\ predictions = PlainNormalVector(disease_mapping)
    /\ result.status = "low_confidence"

C10_RankingTiesAscending ==
    Returned =>
        LET n == Cardinality(DOMAIN predictions)
            r == Ranking(n)
        IN  /\ Len(r) = n
            /\ {r[i] : i \in 1..n} = DOMAIN predictions
            /\ \A i \in 1..(n - 1) :
                  \/ predictions[r[i]] > predictions[r[i + 1]]
                  \/ /\ predictions[r[i]] = predictions[r[i + 1]]
                     /\ r[i] < r[i + 1]

(***************************************************************************)
(* Vocabulary of the properties of the router.                             *)
(***************************************************************************)
\* request c has been answered with a decision record
Answered(c) ==
    /\ callers[c].pc = "responded"
    /\ callers[c].response.status_code = 200

\* the root endpoint has answered a request whose upload reached the model
ModelRan ==
    /\ pc = "responded"
    /\ "decodable" \in DOMAIN image
    /\ image.decodable
    /\ "accepted" \in DOMAIN upload_rejection(image)

\* a vector that breaks the input constraint: not one entry per class of the
\* taxonomy, or an entry outside [0, 1]
Malformed(vector, mapping) ==
    \/ DOMAIN vector # DOMAIN mapping
    \/ \E id \in DOMAIN vector : vector[id] < 0 \/ vector[id] > 100

\* the labels of the taxonomy as the decision layer writes them
TaxonomyLabels(mapping) == {cleaned(mapping[id]) : id \in DOMAIN mapping}

\* a label synthesized by a bias rule
Composite(label) ==
    \/ HasPrefix(label, "Multiple Possibilities: ")
    \/ HasPrefix(label, "Uncertain Detection - ")
    \/ HasPrefix(label, "High Confidence with Uncertainty: ")

C12_MalformedVectorRejected ==
    (ModelRan /\ Malformed(predictions, disease_mapping)) =>
        /\ "status" \notin DOMAIN result
        /\ response.status_code # 200

(***************************************************************************)
(* C13.  No error becomes a degraded result: the service hands its caller  *)
(* no dict in place of an error, and no record carries a label made up for *)
(* a class id the taxonomy does not have.                                  *)
(***************************************************************************)
C13_NoDegradedResult ==
    pc = "responded" =>
        /\ "error" \notin DOMAIN result
        /\ "prediction" \in DOMAIN result
              => ~str_contains(result.prediction, "Unknown Disease ")

(***************************************************************************)
(* C14.  The configuration is validated at start-up: no request gets past  *)
(* the construction of the service while the bias registry names a label   *)
(* the taxonomy does not have.                                             *)
(***************************************************************************)
C14_RegistryValidatedAtStartup ==
    pc = "resolved" =>
        \A k \in 1..Len(problematic_predictions) :
            problematic_predictions[k] \in TaxonomyLabels(disease_mapping)

(***************************************************************************)
(* C15.  One low-confidence threshold on every path: for a valid vector    *)
(* the root endpoint gives its unknown outcome exactly when the decision   *)
(* layer classifies the vector as low_confidence.                          *)
(***************************************************************************)
C15_SingleLowConfidenceThreshold ==
    (/\ ModelRan
     /\ ~Malformed(predictions, disease_mapping)
     /\ response.status_code = 200) =>
        (response.content.disease = "Unknown"
            <=> result.status = "low_confidence")

(***************************************************************************)
(* C20.  The treatment lookup falls back on composite labels: a label      *)
(* synthesized by a bias rule that is no key of the lookup table gets the  *)
(* generic message, not the treatment of a disease named inside it.        *)
(***************************************************************************)
C20_CompositeLabelGenericTreatment ==
    (/\ ModelRan
     /\ response.status_code = 200
     /\ Composite(response.content.disease)
     /\ str_lower(response.content.disease) \notin DOMAIN treatment_map) =>
        response.content.treatment =
            "Use integrated pest management: monitor, remove infected parts, consider organic or copper-based treatments."

(***************************************************************************)
(* C16.  The alternatives of a record are at most K - 1 = 3 entries in     *)
(* non-increasing confidence order, and none of them is the class of the   *)
(* primary label when that label is a single class.                        *)
(***************************************************************************)
C16_AlternativesBounded ==
    (Returned /\ "alternative_predictions" \in DOMAIN result) =>
        LET alternatives == result.alternative_predictions
        IN  /\ Len(alternatives) <= 3
            /\ \A i \in 1..(Len(alternatives) - 1) :
                  alternatives[i].confidence >= alternatives[i + 1].confidence
            /\ result.prediction \in TaxonomyLabels(disease_mapping) =>
                  \A i \in 1..Len(alternatives) :
                      alternatives[i].prediction # result.prediction

C16_Witness ==
    /\ Returned
    /\ "alternative_predictions" \in DOMAIN result
    /\ result.prediction \in TaxonomyLabels(disease_mapping)
    /\ Len(result.alternative_predictions) = 3
    /\ result.alternative_predictions[1].confidence
          > result.alternative_predictions[2].confidence
    /\ result.alternative_predictions[2].confidence
          > result.alternative_predictions[3].confidence

(***************************************************************************)
(* C17.  A record carries the original label if and only if its status is  *)
(* bias_adjusted, and the original label is the label of the top-1 class.  *)
(***************************************************************************)
C17_OriginalLabelIffBiasAdjusted ==
    Returned =>
        /\ "original_prediction" \in DOMAIN result
              <=> result.status = "bias_adjusted"
        /\ "original_prediction" \in DOMAIN result
              => result.original_prediction = LabelOf(Ranking(1)[1])

C17_Witness ==
    /\ Returned
    /\ result.status = "bias_adjusted"
    /\ HasPrefix(result.prediction, "Uncertain Detection - Possibly ")
    /\ result.original_prediction = "Cherry - Powdery Mildew"

(***************************************************************************)
(* C18.  For a vector with entries in [0, 1] the confidence of the record  *)
(* lies in [0, 1] under every rule, the blended values included.           *)
(***************************************************************************)
C18_ConfidenceInUnitInterval ==
    (Returned /\ ~Malformed(predictions, disease_mapping)) =>
        /\ result.confidence >= 0
        /\ result.confidence <= 10000

C18_Witness ==
    /\ Returned
    /\ ~Malformed(predictions, disease_mapping)
    /\ HasPrefix(result.prediction, "High Confidence with Uncertainty: ")
    /\ predictions[Ranking(1)[1]] = 96
    /\ result.confidence = 5800

(***************************************************************************)
(* C19.  Concurrent requests are independent: each answer is the record    *)
(* the decision layer gives for its vector alone, the shared mapping is    *)
(* never written after construction, and the shared service is constructed *)
(* once, however the first requests interleave.                            *)
(***************************************************************************)
C19_ConcurrentCallsIndependent ==
    /\ constructions <= 1
    /\ constructions > 0 => disease_mapping = shipped_disease_mapping
    /\ \A c \in Callers :
          Answered(c) =>
              callers[c].response.content =
                  apply_bias_mitigation(shipped_disease_mapping,
                      argsort_stable, callers[c].predictions)
(***************************************************************************)
(* C21.  At POST /detect-disease and POST /detect-disease-base64 a request *)
(* that passes the checks of the handler and whose pipeline fails (the     *)
(* result carries "error") is answered with HTTP 500 and a body that holds *)
(* only the detail, no prediction; a request the handler turns away is     *)
(* answered with the HTTP 400 the handler raised, detail unchanged, never  *)
(* with 500.                                                               *)
(***************************************************************************)
C21_PipelineFailureIs500 ==
    \A c \in Callers :
        (callers[c].pc = "responded" /\ callers[c].image # None) =>
            LET request == callers[c].image
                answer == callers[c].response
                turned_away ==
                    IF "is_image" \in DOMAIN request
                    THEN \/ ~request.is_image
                         \/ request.size > 10 * 1024 * 1024
                         \/ request.size = 0
                    ELSE \/ ~request.has_field
                         \/ ~request.truthy
                         \/ ~request.is_str
            IN  IF turned_away
                THEN /\ answer.status_code = 400
                     /\ answer.content.detail \in
                            {"Invalid file type. Please upload an image file (JPEG, PNG, JPG).",
                             "File size too large. Please upload an image smaller than 10MB.",
                             "Empty file uploaded. Please upload a valid image.",
                             "Missing 'base64_image' field in request body.",
                             "Invalid base64_image. Please provide a valid base64 encoded image string."}
                ELSE IF ~request.decodable
                THEN /\ answer.status_code = 500
                     /\ DOMAIN answer.content = {"detail"}
                     /\ HasPrefix(answer.content.detail, "Disease detection failed: ")
                ELSE /\ answer.status_code = 200
                     /\ "prediction" \in DOMAIN answer.content

\* one request answered 500 for a base64 string that does not decode while
\* another is answered 400 for a file that is no image
C21_Witness ==
    /\ callers[1].pc = "responded"
    /\ callers[1].image # None
    /\ "has_field" \in DOMAIN callers[1].image
    /\ callers[1].image.truthy
    /\ callers[1].image.is_str
    /\ ~callers[1].image.decodable
    /\ callers[1].response.status_code = 500
    /\ callers[2].pc = "responded"
    /\ callers[2].image # None
    /\ "is_image" \in DOMAIN callers[2].image
    /\ ~callers[2].image.is_image
    /\ callers[2].response.status_code = 400
(***************************************************************************)
(* C22.  For a vector whose entries are in [0, 1] and sum to at most 1 the *)
(* status high_confidence_with_alternatives is never returned: a top-1     *)
(* above 0.95 leaves less than 0.05 to rank 2, so the gap is above 0.6 and *)
(* the record comes from the known-bias or the dominance-gap rule.         *)
(***************************************************************************)
C22_NormalizedNeverOverConfident ==
    (/\ Returned
     /\ \A id \in DOMAIN predictions :
            predictions[id] >= 0 /\ predictions[id] <= 100
     /\ VectorSum(predictions) <= 100)
        => /\ result.status # "high_confidence_with_alternatives"
           /\ predictions[Ranking(2)[1]] > 95 =>
                  /\ predictions[Ranking(2)[2]] < 5
                  /\ FiredRule \in {2, 3}
                  /\ result.status = "bias_adjusted"

\* top-1 0.96 and rank 2 0.04, answered by the dominance-gap rule
C22_Witness ==
    /\ Returned
    /\ VectorSum(predictions) = 100
    /\ predictions[Ranking(2)[1]] = 96
    /\ predictions[Ranking(2)[2]] = 4
    /\ FiredRule = 3
    /\ result.confidence = 5000
(***************************************************************************)
(* C23.  With the shipped 22-class mapping no cleaned label contains a     *)
(* string of the bias registry, so the known-bias branch is never taken:   *)
(* no returned label starts with "Uncertain Detection - " or "Multiple     *)
(* Possibilities: ", and every bias_adjusted record is the one of the      *)
(* dominance-gap rule.                                                     *)
(***************************************************************************)
\* the classes of the shipped mapping whose cleaned label holds a registry string
ShippedRegistryMatches ==
    {id \in DOMAIN shipped_disease_mapping :
        \E k \in 1..Len(problematic_predictions) :
            str_contains(cleaned(shipped_disease_mapping[id]),
                         problematic_predictions[k])}

C23_KnownBiasUnreachable ==
    /\ ShippedRegistryMatches = {}
    /\ Returned =>
          /\ ~HasPrefix(result.prediction, "Uncertain Detection - ")
          /\ ~HasPrefix(result.prediction, "Multiple Possibilities: ")
          /\ result.status = "bias_adjusted" =>
                /\ HasPrefix(result.prediction,
                             "High Confidence with Uncertainty: Likely ")
                /\ predictions[Ranking(2)[1]] > 80
                /\ predictions[Ranking(2)[1]] - predictions[Ranking(2)[2]] > 60

\* Cherry_Powdery_Mildew on top with 0.75, above the bias trigger, comes
\* back as it is
C23_Witness ==
    /\ Returned
    /\ Ranking(1)[1] = 4
    /\ disease_mapping[4] = "Cherry_Powdery_Mildew"
    /\ predictions[4] = 75
    /\ result.status = "normal"
    /\ result.prediction = "Cherry Powdery Mildew"
(***************************************************************************)
(* C24.  Bias mitigation never raises confidence: the confidence of the    *)
(* returned record is at most the raw top-1 confidence of the vector, and  *)
(* strictly below it when the record is the one of the dominance-gap rule. *)
(* Vector entries are in hundred-thousandths, the confidence of a record   *)
(* in ten-thousandths.                                                     *)
(***************************************************************************)
C24_NeverRaisesConfidence ==
    Returned =>
        /\ 10 * result.confidence <= predictions[Ranking(1)[1]]
        /\ FiredRule = 3 => 10 * result.confidence < predictions[Ranking(1)[1]]

\* C24 as amended: the confidence of the record is at most the raw top-1
\* confidence rounded to four decimal places, so above the raw value by
\* less than 0.00005 at most, and strictly below the raw value when the
\* record is the one of the dominance-gap rule
C24_NeverRaisesBeyondRounding ==
    Returned =>
        /\ 10 * result.confidence < predictions[Ranking(1)[1]] + 5
        /\ result.confidence <= round4(predictions[Ranking(1)[1]], Precise)
        /\ FiredRule = 3 => 10 * result.confidence < predictions[Ranking(1)[1]]

\* a plain record whose confidence 0.6124 lies above the raw 0.61236
C24_Witness ==
    /\ Returned
    /\ predictions[Ranking(1)[1]] = 61236
    /\ result.status = "normal"
    /\ result.confidence = 6124
    /\ 10 * result.confidence > predictions[Ranking(1)[1]]
(***************************************************************************)
(* C25.  At the root endpoint a vector whose raw top-1 confidence is at    *)
(* least 0.6 is never answered with disease "Unknown": the answer          *)
(* "Unknown" is given only to vectors whose raw top-1 confidence is below  *)
(* 0.45.                                                                   *)
(***************************************************************************)
C25_ConfidentInputNeverUnknown ==
    (/\ ModelRan
     /\ ~Malformed(predictions, disease_mapping)
     /\ response.status_code = 200)
        => /\ predictions[Ranking(1)[1]] >= 60 =>
                  response.content.disease # "Unknown"
           /\ response.content.disease = "Unknown" =>
                  predictions[Ranking(1)[1]] < 45
(***************************************************************************)
(* C26.  Every successful answer of the root endpoint has severity "high"  *)
(* exactly when its confidence is at least 0.75, "medium" exactly when it  *)
(* is in [0.60, 0.75), "low" otherwise; an answer with disease "Unknown"   *)
(* has severity "low", and a service result with status low_confidence is  *)
(* never given severity "medium" or "high".                                *)
(***************************************************************************)
C26_SeverityFromConfidence ==
    (pc = "responded" /\ response.status_code = 200) =>
        LET answer == response.content
        IN  /\ answer.severity = "high" <=> answer.confidence >= 7500
            /\ answer.severity = "medium" <=>
                   (answer.confidence >= 6000 /\ answer.confidence < 7500)
            /\ answer.severity = "low" <=> answer.confidence < 6000
            /\ answer.disease = "Unknown" => answer.severity = "low"
            /\ result.status = "low_confidence" => answer.severity = "low"
(***************************************************************************)
(* C27.  In every batch-detect response successful_predictions is the      *)
(* number of files for which a prediction was produced without error,      *)
(* failed_predictions the number of files that were rejected or errored,   *)
(* and the two sum to the number of entries in results.                    *)
(***************************************************************************)
C27_BatchCounts ==
    (pc = "responded" /\ batch # None /\ response.status_code = 200) =>
        LET results == response.content.results
            predicted == {k \in 1..Len(results) :
                             /\ "prediction" \in DOMAIN results[k]
                             /\ "error" \notin DOMAIN results[k]}
            failed == {k \in 1..Len(results) : "error" \in DOMAIN results[k]}
        IN  /\ response.content.successful_predictions = Cardinality(predicted)
            /\ response.content.failed_predictions = Cardinality(failed)
            /\ response.content.successful_predictions
                   + response.content.failed_predictions = Len(results)

(***************************************************************************)
(* C28.  Batch-detect goes through the files in upload order with a        *)
(* running total that only grows and counts every file that was read, the  *)
(* ones rejected for exceeding 10MB included; once a file was rejected     *)
(* with "Total batch size too large", every later image file of at most    *)
(* 10MB is rejected with the same error; no file is predicted while the    *)
(* running total exceeds 50MB.                                             *)
(***************************************************************************)
\* some entry so far is a rejection for the total
RejectedForTotal(results) ==
    \E k \in 1..Len(results) :
        dict_get(results[k], "error", "") = "Total batch size too large"

C28_RunningTotal ==
    [][(pc = "batching" /\ pc' = "batching") =>
          LET i == Len(batch.files)
              file == batch'.files[i + 1]
              entry == batch'.results[i + 1]
          IN  /\ Len(batch'.files) = i + 1
              /\ Len(batch'.results) = i + 1
              /\ SubSeq(batch'.results, 1, i) = batch.results
              /\ entry.file_index = i
              /\ entry.filename = file.filename
              /\ batch'.total_size >= batch.total_size
              /\ file.is_image =>
                     batch'.total_size = batch.total_size + file.size
              /\ (/\ RejectedForTotal(batch.results)
                  /\ file.is_image
                  /\ file.size <= 10 * 1024 * 1024)
                     => dict_get(entry, "error", "") = "Total batch size too large"
              /\ "file_size" \in DOMAIN entry =>
                     batch'.total_size <= 50 * 1024 * 1024]_vars

\* a file of more than 10MB took the total to the limit, then an image of
\* one byte was rejected for the total, then a file that is no image, then
\* a second image of one byte was rejected for the total
C28_Witness ==
    /\ pc = "batching"
    /\ Len(batch.results) = 4
    /\ dict_get(batch.results[1], "error", "") = "File size too large (>10MB)"
    /\ batch.files[2].size = 1
    /\ dict_get(batch.results[2], "error", "") = "Total batch size too large"
    /\ dict_get(batch.results[3], "error", "") = "Invalid file type"
    /\ batch.files[4].size = 1
    /\ dict_get(batch.results[4], "error", "") = "Total batch size too large"
    /\ batch.total_size = 50 * 1024 * 1024 + 2
C30_RiskScoreAndLevel ==
    (pc = "responded" /\ risk_request # None) =>
        LET pest_risk == response.content.pest_risk
            score == pest_risk.risk_score
        IN  /\ response.status_code = 200
            /\ score >= 0
            /\ score <= 1000
            /\ pest_risk.risk_level \in
                   {"Very High", "High", "Medium", "Low", "Very Low"}
            /\ pest_risk.risk_level = "Very High" <=> score >= 800
            /\ pest_risk.risk_level = "High" <=> (score >= 600 /\ score < 800)
            /\ pest_risk.risk_level = "Medium" <=> (score >= 400 /\ score < 600)
            /\ pest_risk.risk_level = "Low" <=> (score >= 200 /\ score < 400)
            /\ pest_risk.risk_level = "Very Low" <=> score < 200
            /\ pest_risk.confidence >= 70 * 20
            /\ pest_risk.confidence <= 95 * 20

\* the hottest, most humid monsoon day: 90 points times 1.3, cut to 100
C30_Witness ==
    /\ pc = "responded"
    /\ risk_request # None
    /\ dict_get(risk_request, "temperature", 25) = 35
    /\ dict_get(risk_request, "humidity", 60) = 80
    /\ dict_get(risk_request, "rainfall", 100) = 200
    /\ dict_get(risk_request, "season", "summer") = "Monsoon"
    /\ response.content.pest_risk.risk_score = 1000
    /\ response.content.pest_risk.risk_level = "Very High"
    /\ response.content.pest_risk.confidence = 75 * 20
====
